---- MODULE Spec2Model ----
(***************************************************************************)
(* Model of compiler/steps/validate-rest-spec.ts: the pass that compares   *)
(* the type model's request definitions (flattened over `inherits`) with   *)
(* the rest-api-spec JSON of every endpoint and logs a warning for every   *)
(* path parameter, query parameter or body mismatch.                       *)
(*                                                                         *)
(* An optional value (T | null | undefined) is <<>> when absent and <<v>>  *)
(* when present.  An array is a sequence; Object.keys of an object is the  *)
(* duplicate-free sequence of its keys.                                    *)
(***************************************************************************)
EXTENDS Integers, Sequences, FiniteSets, TLC

VARIABLES model, jsonSpec, idx, pc, requestDefinition, warnings, status, returned,
          visited

vars == <<model, jsonSpec, idx, pc, requestDefinition, warnings, status, returned,
          visited>>

\* ------------------------------------------------------------ bounds
\* Largest number of endpoints of a model.
MaxEndpoints == 2
\* Largest length of the inherits list of the request entity R.
MaxInherits == 2

\* ------------------------------------------------------------ values
None == <<>>
Some(v) == <<v>>
IsNull(o) == o = <<>>
Val(o) == o[1]

\* enum Body
noBody == 0
yesBody == 1

LOG == "ALL"

Range(s) == {s[i] : i \in 1..Len(s)}

\* array.includes(x)
includes(array, x) == \E i \in 1..Len(array) : array[i] = x

\* paths.filter(path => path.parts != null)
\*      .flatMap(path => Object.keys(path.parts))
RECURSIVE flatParts(_)
flatParts(paths) ==
  IF paths = <<>> THEN <<>>
  ELSE (IF IsNull(Head(paths).parts) THEN <<>> ELSE Val(Head(paths).parts))
       \o flatParts(Tail(paths))

\* Array.from(new Set(array)): first occurrences, in order
RECURSIVE ArrayFromSet(_)
ArrayFromSet(array) ==
  IF array = <<>> THEN <<>>
  ELSE LET front == ArrayFromSet(SubSeq(array, 1, Len(array) - 1))
           last == array[Len(array)]
       IN IF includes(front, last) THEN front ELSE Append(front, last)

\* properties.map(property => property.name)
names(properties) == [i \in 1..Len(properties) |-> properties[i].name]

\* ------------------------------------------------------------ getDefinition
\* The first request or interface of model.types named `name`, or the
\* thrown Error("Can't find the request definiton for ...") as None.
getDefinition(types, name) ==
  LET hits == {i \in 1..Len(types) :
                 /\ types[i].kind \in {"request", "interface"}
                 /\ types[i].name.name = name}
  IN IF hits = {} THEN None
     ELSE Some(types[CHOOSE i \in hits : \A j \in hits : i <= j])

\* ------------------------------------------------------------ getProperties
\* What a call of getProperties ends with: a value, or a thrown error.
Returned(path, query, body) ==
  [err |-> "none", path |-> path, query |-> query, body |-> body]
Thrown(err) == [err |-> err, path |-> <<>>, query |-> <<>>, body |-> noBody]

\* A recursion deeper than the number of types has met a definition twice
\* on one inheritance chain and never returns: the call stack overflows.
StackLimit(types) == Len(types)

\* (mutant of OwnProperties: an interface's properties are not taken)
OwnPropertiesRequestOnly(definition) ==
  IF definition.kind = "request"
  THEN Returned(definition.path, definition.query,
                IF ~IsNull(definition.body) THEN yesBody ELSE noBody)
  ELSE Returned(<<>>, <<>>, noBody)

\* The start of getProperties: the definition's own properties.
OwnProperties(definition) ==
  IF definition.kind = "request"
  THEN Returned(definition.path, definition.query,
                IF ~IsNull(definition.body) THEN yesBody ELSE noBody)
  ELSE Returned(<<>>, definition.properties, noBody)

\* (mutant of Accumulate: a body, once seen, stays)
AccumulateBodyUnion(acc, properties) ==
  Returned(acc.path \o properties.path,
           acc.query \o properties.query,
           IF properties.body = yesBody THEN yesBody ELSE acc.body)

\* One round of `for (const inherit of inherits)`: what the inherited
\* properties add to the accumulated ones.
Accumulate(acc, properties) ==
  Returned(acc.path \o properties.path,
           acc.query \o properties.query,
           IF acc.body # properties.body THEN properties.body ELSE acc.body)

RECURSIVE getProperties(_, _, _), InheritLoop(_, _, _, _, _)

\* recursively gets the properties from the current and inherited classes;
\* depth is the number of getProperties frames on the call stack.
getProperties(types, definition, depth) ==
  IF depth > StackLimit(types) THEN Thrown("RangeError")
  ELSE IF IsNull(definition.inherits) THEN OwnProperties(definition)
  ELSE
    LET refs == Val(definition.inherits)
        inherits == [i \in 1..Len(refs) |-> getDefinition(types, refs[i].type.name)]
    IN IF \E i \in 1..Len(refs) : IsNull(inherits[i])
       THEN Thrown("DefinitionNotFound")
       ELSE InheritLoop(types, inherits, 1, OwnProperties(definition), depth)

\* `for (const inherit of inherits)` from its k-th round on, with acc the
\* path, query and body accumulated so far; an error thrown by a recursive
\* call ends the loop and the call.
InheritLoop(types, inherits, k, acc, depth) ==
  IF k > Len(inherits) THEN acc
  ELSE LET properties == getProperties(types, Val(inherits[k]), depth + 1)
       IN IF properties.err # "none" THEN Thrown(properties.err)
          ELSE InheritLoop(types, inherits, k + 1, Accumulate(acc, properties), depth)

\* getProperties(getDefinition(endpoint.request.name)) of line 43
resolve(types, name) ==
  LET definition == getDefinition(types, name)
  IN IF IsNull(definition) THEN Thrown("DefinitionNotFound")
     ELSE getProperties(types, Val(definition), 1)

\* ------------------------------------------------------------ console.warn
\* One line written by console.warn: its wording (kind), the request name
\* and the parameter name it prints (None for a body warning), and the
\* endpoint of the loop round that wrote it.
Warning(endpoint, kind, request, name) ==
  [endpoint |-> endpoint, kind |-> kind, request |-> request, name |-> name]

\* for (const name of xs) if (!ys.includes(name)) console.warn(...)
warnEach(endpoint, kind, request, xs, ys) ==
  LET absent(name) == ~includes(ys, name)
      hits == SelectSeq(xs, absent)
  IN [i \in 1..Len(hits) |-> Warning(endpoint, kind, request, Some(hits[i]))]

\* (mutant of urlParts: only the first url path is read)
urlPartsFirstPath(spec) ==
  IF spec.url.paths = <<>> THEN <<>>
  ELSE ArrayFromSet(flatParts(<<Head(spec.url.paths)>>))

\* lines 48-54
urlParts(spec) == ArrayFromSet(flatParts(spec.url.paths))

\* lines 55-68
pathWarnings(endpoint, request, definition, spec) ==
  LET pathProperties == names(definition.path)
  IN warnEach(endpoint, "pathNotInSpec", request, pathProperties, urlParts(spec))
     \o warnEach(endpoint, "pathNotInModel", request, urlParts(spec), pathProperties)

\* lines 70-86
queryWarnings(endpoint, request, definition, spec) ==
  IF ~IsNull(spec.params)
  THEN LET params == Val(spec.params)
           queryProperties == names(definition.query)
       IN warnEach(endpoint, "queryNotInSpec", request, queryProperties, params)
          \o warnEach(endpoint, "queryNotInModel", request, params, queryProperties)
  ELSE <<>>

\* (mutant of bodyWarnings: the `required === true` test is left out)
bodyWarningsAnyRequired(endpoint, request, definition, spec) ==
  (IF definition.body = yesBody /\ IsNull(spec.body)
   THEN <<Warning(endpoint, "shouldNotIncludeBody", request, None)>> ELSE <<>>)
  \o
  (IF definition.body = noBody /\ ~IsNull(spec.body)
   THEN <<Warning(endpoint, "shouldIncludeBody", request, None)>> ELSE <<>>)

\* lines 88-94
bodyWarnings(endpoint, request, definition, spec) ==
  (IF definition.body = yesBody /\ IsNull(spec.body)
   THEN <<Warning(endpoint, "shouldNotIncludeBody", request, None)>> ELSE <<>>)
  \o
  (IF definition.body = noBody /\ ~IsNull(spec.body)
      /\ Val(spec.body).required = Some(TRUE)
   THEN <<Warning(endpoint, "shouldIncludeBody", request, None)>> ELSE <<>>)

\* jsonSpec.get(name)
get(map, name) == IF name \in DOMAIN map THEN Some(map[name]) ELSE None

\* (mutant of returnValue: a copy without the endpoints that have no request)
returnValueWithRequests(m) ==
  LET kept(e) == ~IsNull(e.request)
  IN [m EXCEPT !.endpoints = SelectSeq(m.endpoints, kept)]

\* return model (line 98)
returnValue(m) == m

\* ------------------------------------------------------------ inputs
Property(name) == [name |-> name]
Properties(ns) == [i \in 1..Len(ns) |-> Property(ns[i])]
Ref(name) == [type |-> [name |-> name]]
Refs(ns) == [i \in 1..Len(ns) |-> Ref(ns[i])]
Request(name, path, query, body, inherits) ==
  [kind |-> "request", name |-> [name |-> name], path |-> Properties(path),
   query |-> Properties(query), body |-> body,
   inherits |-> IF IsNull(inherits) THEN None ELSE Some(Refs(Val(inherits)))]
Interface(name, properties, inherits) ==
  [kind |-> "interface", name |-> [name |-> name],
   properties |-> Properties(properties),
   inherits |-> IF IsNull(inherits) THEN None ELSE Some(Refs(Val(inherits)))]
Enum(name) == [kind |-> "enum", name |-> [name |-> name]]
Endpoint(name, request) ==
  [name |-> name,
   request |-> IF IsNull(request) THEN None ELSE Some([name |-> Val(request)])]
Path(parts) == [parts |-> parts]
JsonSpec(paths, params, body) ==
  [url |-> [paths |-> paths], params |-> params, body |-> body]
JsonBody(required) == [required |-> required]
Model(types, endpoints) == [types |-> types, endpoints |-> endpoints]

SeqUpTo(n, S) == UNION {[1..k -> S] : k \in 0..n}
\* The lists of at most n different names of S.
NameLists(n, S) ==
  {l \in SeqUpTo(n, S) : \A j, k \in 1..Len(l) : l[j] = l[k] => j = k}
BodyDecl == {None, Some("body")}

\* Inheritance-centred inputs: one endpoint on request R, which inherits
\* from up to MaxInherits of A, B and the undeclared X (an enum bears that
\* name); A is a request or an interface that may inherit from B or, in a
\* cycle, from R; B is a leaf.
ResolveTypes ==
  {<<r, a, b, Enum("X")>> :
     r \in {Request("R", p, q, body, inh) :
              p \in {<<>>, <<"id">>}, q \in {<<>>, <<"q">>}, body \in BodyDecl,
              inh \in {None} \cup {Some(l) : l \in NameLists(MaxInherits, {"A", "B", "X"})}},
     a \in {Request("A", <<"id">>, <<>>, body, inh) :
              body \in BodyDecl, inh \in {None, Some(<<"B">>), Some(<<"R">>)}}
           \cup {Interface("A", <<"q">>, inh) :
              inh \in {None, Some(<<"B">>), Some(<<"R">>)}},
     b \in {Request("B", <<"index">>, <<>>, body, None) : body \in BodyDecl}
           \cup {Interface("B", <<"q">>, Some(<<>>))}}

ResolveSpecs ==
  {JsonSpec(<<Path(None)>>, Some(<<>>), None),
   JsonSpec(<<Path(Some(<<"id", "index">>))>>, Some(<<"q">>), Some(JsonBody(Some(TRUE))))}

ResolveInputs ==
  {[model |-> Model(types, <<Endpoint("e1", Some("R"))>>),
    jsonSpec |-> [n \in {"e1"} |-> spec]] :
     types \in ResolveTypes, spec \in ResolveSpecs}

\* Comparison-centred inputs: one endpoint, on a request without ancestors
\* or on an interface, against every shape of the JSON spec.
CompareTypes ==
  {<<Request("R", p, q, body, None), Interface("A", <<"q">>, None)>> :
     p \in {<<>>, <<"id">>, <<"index", "id">>}, q \in {<<>>, <<"q">>}, body \in BodyDecl}

CompareSpecs ==
  {JsonSpec(paths, params, body) :
     paths \in {<<>>, <<Path(None)>>, <<Path(Some(<<"id">>))>>,
                <<Path(Some(<<"id">>)), Path(Some(<<"id", "index">>))>>,
                <<Path(None), Path(Some(<<"index">>)), Path(Some(<<"id">>))>>},
     params \in {None, Some(<<>>), Some(<<"q">>), Some(<<"pretty", "q">>)},
     body \in {None, Some(JsonBody(None)), Some(JsonBody(Some(FALSE))),
               Some(JsonBody(Some(TRUE)))}}

CompareInputs ==
  {[model |-> Model(types, <<Endpoint("e1", Some(on))>>),
    jsonSpec |-> [n \in {"e1"} |-> spec]] :
     types \in CompareTypes, on \in {"R", "A"}, spec \in CompareSpecs}

\* Pass-centred inputs: up to MaxEndpoints endpoints, each without a
\* request, on R or on the undeclared X, and each with or without an entry
\* in the JSON spec map.
EndpointNames == <<"e1", "e2", "e3", "e4">>

PassTypesOf(paths) ==
  {<<Enum("X"), r, a>> :
     r \in {Request("R", p, <<>>, None, inh) :
              p \in paths, inh \in {None, Some(<<"A">>)}},
     a \in {Interface("A", <<"q">>, inh) :
              inh \in {None, Some(<<"R">>), Some(<<"X">>)}}}

PassSpecs ==
  {JsonSpec(<<>>, None, None),
   JsonSpec(<<Path(Some(<<"id">>))>>, Some(<<"q">>), Some(JsonBody(Some(TRUE))))}

PassEndpoints ==
  UNION {{[i \in 1..n |-> Endpoint(EndpointNames[i], requests[i])] :
            requests \in [1..n -> {None, Some("R"), Some("X")}]} :
         n \in 0..MaxEndpoints}

PassInputsOf(typesOf, specs) ==
  UNION {{[model |-> Model(ts, es), jsonSpec |-> map] :
            ts \in typesOf,
            map \in UNION {[D -> specs] :
                             D \in SUBSET {es[i].name : i \in 1..Len(es)}}} :
         es \in PassEndpoints}

PassInputs == PassInputsOf(PassTypesOf({<<>>, <<"id">>}), PassSpecs)

Inputs == ResolveInputs \cup CompareInputs \cup PassInputs

\* The pass-centred inputs in which the request R declares no path
\* parameter and every spec entry has params.
FairInputs ==
  PassInputsOf(PassTypesOf({<<>>}), {sp \in PassSpecs : ~IsNull(sp.params)})

NoDefinition == Thrown("none")

\* ------------------------------------------------------------ the pass
Started(inputs) ==
  /\ \E input \in inputs :
       /\ model = input.model
       /\ jsonSpec = input.jsonSpec
  /\ idx = 1
  /\ pc = "for"
  /\ requestDefinition = NoDefinition
  /\ warnings = <<>>
  /\ status = "running"
  /\ returned = None
  /\ visited = <<>>

Init == Started(Inputs)
FairInit == Started(FairInputs)

endpoint == model.endpoints[idx]
request == Val(endpoint.request).name
spec == Val(get(jsonSpec, endpoint.name))

InLoop(at) ==
  /\ status = "running"
  /\ pc = at
  /\ idx <= Len(model.endpoints)

\* line 42: if (endpoint.request == null) continue
Continue ==
  /\ InLoop("for")
  /\ IsNull(endpoint.request)
  /\ idx' = idx + 1
  /\ visited' = Append(visited, idx)
  /\ UNCHANGED <<model, jsonSpec, pc, requestDefinition, warnings, status, returned>>

\* line 43, the call returns; line 44 lets every request through (LOG)
GetProperties ==
  /\ InLoop("for")
  /\ ~IsNull(endpoint.request)
  /\ LET properties == resolve(model.types, request)
     IN /\ properties.err = "none"
        /\ IF request = LOG \/ LOG = "ALL"
           THEN /\ requestDefinition' = properties
                /\ pc' = "spec"
                /\ idx' = idx
           ELSE /\ requestDefinition' = NoDefinition
                /\ pc' = "for"
                /\ idx' = idx + 1
  /\ visited' = Append(visited, idx)
  /\ UNCHANGED <<model, jsonSpec, warnings, status, returned>>

\* (mutant of GetPropertiesThrows: the error is caught and the loop goes on)
GetPropertiesThrowsCaught ==
  /\ InLoop("for")
  /\ ~IsNull(endpoint.request)
  /\ resolve(model.types, request).err # "none"
  /\ idx' = idx + 1
  /\ visited' = Append(visited, idx)
  /\ UNCHANGED <<model, jsonSpec, pc, requestDefinition, warnings, status, returned>>

\* line 43, the call throws: the Error of getDefinition, or the RangeError
\* of a recursion that does not end
GetPropertiesThrows ==
  /\ InLoop("for")
  /\ ~IsNull(endpoint.request)
  /\ LET properties == resolve(model.types, request)
     IN /\ properties.err # "none"
        /\ status' = properties.err
  /\ visited' = Append(visited, idx)
  /\ UNCHANGED <<model, jsonSpec, idx, pc, requestDefinition, warnings, returned>>

\* lines 45-46, the spec is there
GetSpec ==
  /\ InLoop("spec")
  /\ ~IsNull(get(jsonSpec, endpoint.name))
  /\ pc' = "path"
  /\ UNCHANGED <<model, jsonSpec, idx, requestDefinition, warnings, status, returned, visited>>

\* (mutant of GetSpecThrows: an endpoint without a spec is passed over)
GetSpecMissingPassedOver ==
  /\ InLoop("spec")
  /\ IsNull(get(jsonSpec, endpoint.name))
  /\ pc' = "for"
  /\ idx' = idx + 1
  /\ requestDefinition' = NoDefinition
  /\ UNCHANGED <<model, jsonSpec, warnings, status, returned, visited>>

\* lines 45-46, the assertion fails
GetSpecThrows ==
  /\ InLoop("spec")
  /\ IsNull(get(jsonSpec, endpoint.name))
  /\ status' = "AssertionError"
  /\ UNCHANGED <<model, jsonSpec, idx, pc, requestDefinition, warnings, returned, visited>>

\* (mutant of ComparePath: a path mismatch is asserted, not warned about)
ComparePathAsserts ==
  /\ InLoop("path")
  /\ warnings' = warnings \o pathWarnings(idx, request, requestDefinition, spec)
  /\ IF pathWarnings(idx, request, requestDefinition, spec) = <<>>
     THEN pc' = "query" /\ status' = status
     ELSE pc' = pc /\ status' = "AssertionError"
  /\ UNCHANGED <<model, jsonSpec, idx, requestDefinition, returned, visited>>

\* lines 48-68
ComparePath ==
  /\ InLoop("path")
  /\ warnings' = warnings \o pathWarnings(idx, request, requestDefinition, spec)
  /\ pc' = "query"
  /\ UNCHANGED <<model, jsonSpec, idx, requestDefinition, status, returned, visited>>

\* lines 70-86
CompareQuery ==
  /\ InLoop("query")
  /\ warnings' = warnings \o queryWarnings(idx, request, requestDefinition, spec)
  /\ pc' = "body"
  /\ UNCHANGED <<model, jsonSpec, idx, requestDefinition, status, returned, visited>>

\* lines 88-94, and on to the next endpoint
CompareBody ==
  /\ InLoop("body")
  /\ warnings' = warnings \o bodyWarnings(idx, request, requestDefinition, spec)
  /\ pc' = "for"
  /\ idx' = idx + 1
  /\ requestDefinition' = NoDefinition
  /\ UNCHANGED <<model, jsonSpec, status, returned, visited>>

\* line 98
Return ==
  /\ status = "running"
  /\ pc = "for"
  /\ idx > Len(model.endpoints)
  /\ status' = "returned"
  /\ returned' = Some(returnValue(model))
  /\ UNCHANGED <<model, jsonSpec, idx, pc, requestDefinition, warnings, visited>>

Next ==
  \/ Continue
  \/ GetProperties
  \/ GetPropertiesThrows
  \/ GetSpec
  \/ GetSpecThrows
  \/ ComparePath
  \/ CompareQuery
  \/ CompareBody
  \/ Return

Spec == Init /\ [][Next]_vars

\* The pass is one synchronous function: once called it runs on.
FairSpec == FairInit /\ [][Next]_vars /\ WF_vars(Next)

\* ------------------------------------------------------------ vocabulary
\* The words of the properties below, defined on the inputs alone.

endpoints == model.endpoints
types == model.types
HasRequest(i) == ~IsNull(endpoints[i].request)
requestOf(i) == Val(endpoints[i].request).name
HasSpec(i) == endpoints[i].name \in DOMAIN jsonSpec
specOf(i) == jsonSpec[endpoints[i].name]

\* The loop round of endpoint i is over / has done its path / query part.
Compared(i) == i < idx /\ HasRequest(i)
PathCompared(i) == Compared(i) \/ (i = idx /\ pc \in {"query", "body"})
QueryCompared(i) == Compared(i) \/ (i = idx /\ pc = "body")

\* The warnings of endpoint i with one of the wordings `kinds`.
WarningsOf(i, kinds) ==
  LET mine(w) == w.endpoint = i /\ w.kind \in kinds
  IN SelectSeq(warnings, mine)
WarnedNames(i, kind) == {Val(w.name) : w \in Range(WarningsOf(i, {kind}))}
PathKinds == {"pathNotInSpec", "pathNotInModel"}
QueryKinds == {"queryNotInSpec", "queryNotInModel"}
BodyKinds == {"shouldNotIncludeBody", "shouldIncludeBody"}

\* The names a declared request or interface inherits from.
InheritNames(name) ==
  LET d == getDefinition(types, name)
  IN IF IsNull(d) \/ IsNull(Val(d).inherits) THEN {}
     ELSE {r.type.name : r \in Range(Val(Val(d).inherits))}

RECURSIVE Reach(_, _)
Reach(S, k) ==
  IF k = 0 THEN S ELSE Reach(S \cup UNION {InheritNames(n) : n \in S}, k - 1)

\* `name` and everything reachable from it through inherits references.
Lineage(name) == Reach({name}, Len(types))
Ancestors(name) == Reach(InheritNames(name), Len(types))

Declared == {types[i].name.name : i \in {j \in 1..Len(types) :
                                          types[j].kind \in {"request", "interface"}}}

DeclaredPath(name) ==
  LET d == getDefinition(types, name)
  IN IF IsNull(d) \/ Val(d).kind # "request" THEN {}
     ELSE {q.name : q \in Range(Val(d).path)}

DeclaredQuery(name) ==
  LET d == getDefinition(types, name)
  IN IF IsNull(d) THEN {}
     ELSE IF Val(d).kind = "request" THEN {q.name : q \in Range(Val(d).query)}
     ELSE {q.name : q \in Range(Val(d).properties)}

DeclaresBody(name) ==
  LET d == getDefinition(types, name)
  IN ~IsNull(d) /\ Val(d).kind = "request" /\ ~IsNull(Val(d).body)

FlattenedPath(name) == UNION {DeclaredPath(n) : n \in Lineage(name)}
FlattenedQuery(name) == UNION {DeclaredQuery(n) : n \in Lineage(name)}

SpecParts(sp) ==
  UNION {IF IsNull(u.parts) THEN {} ELSE Range(Val(u.parts)) : u \in Range(sp.url.paths)}

Acyclic == \A n \in Declared : n \notin Ancestors(n)
AllResolve ==
  /\ \A n \in Declared : InheritNames(n) \subseteq Declared
  /\ \A i \in 1..Len(endpoints) : HasRequest(i) => requestOf(i) \in Declared

\* ------------------------------------------------------------ C2
\* C2: for every endpoint with a request whose loop round is over, the body
\* warnings are: none when the flattened model has no body and the spec has
\* no body or one whose required is not true; exactly one "should include a
\* body" when the model has no body and the spec body is required; exactly
\* one "should not include a body" when the model has a body and the spec
\* has none; none when both have a body, whatever required is.
C2_BodyReconciliation ==
  \A i \in 1..Len(endpoints) :
    Compared(i) =>
      LET flat == resolve(types, requestOf(i))
          mine == WarningsOf(i, BodyKinds)
          specBody == specOf(i).body
      IN /\ (flat.body = noBody /\ (IsNull(specBody) \/ Val(specBody).required # Some(TRUE)))
              => mine = <<>>
         /\ (flat.body = noBody /\ ~IsNull(specBody) /\ Val(specBody).required = Some(TRUE))
              => mine = <<Warning(i, "shouldIncludeBody", requestOf(i), None)>>
         /\ (flat.body = yesBody /\ IsNull(specBody))
              => mine = <<Warning(i, "shouldNotIncludeBody", requestOf(i), None)>>
         /\ (flat.body = yesBody /\ ~IsNull(specBody))
              => mine = <<>>

\* A round is over for a request without a body whose spec has a body that
\* is present and not required, and nothing was said about the body.
C2_Witness ==
  \E i \in 1..Len(endpoints) :
    /\ Compared(i)
    /\ resolve(types, requestOf(i)).body = noBody
    /\ ~IsNull(specOf(i).body)
    /\ Val(specOf(i).body).required = Some(FALSE)
    /\ WarningsOf(i, BodyKinds) = <<>>
    /\ status = "returned"

\* ------------------------------------------------------------ C3
\* C3: for every endpoint with a request whose path comparison is done, a
\* "has the path parameter" warning names n exactly when n is in the
\* flattened model path set (the path names declared by the request and by
\* everything reachable from it through inherits) and in no url path's
\* parts; a "does not include the path parameter" warning names n exactly
\* when n is a part of some url path and not in the flattened model path
\* set; there is no other path warning.
C3_PathSymmetricDifference ==
  \A i \in 1..Len(endpoints) :
    PathCompared(i) =>
      LET inModel == FlattenedPath(requestOf(i))
          inSpec == SpecParts(specOf(i))
      IN /\ WarnedNames(i, "pathNotInSpec") = inModel \ inSpec
         /\ WarnedNames(i, "pathNotInModel") = inSpec \ inModel
         /\ \A w \in Range(WarningsOf(i, PathKinds)) : w.request = requestOf(i)

\* The model path set is {id}, the url paths have the parts id and index
\* between them, and the one path warning is that index is not in the model.
C3_Witness ==
  \E i \in 1..Len(endpoints) :
    /\ PathCompared(i)
    /\ FlattenedPath(requestOf(i)) = {"id"}
    /\ SpecParts(specOf(i)) = {"id", "index"}
    /\ Len(specOf(i).url.paths) > 1
    /\ WarningsOf(i, PathKinds)
         = <<Warning(i, "pathNotInModel", requestOf(i), Some("index"))>>

\* ------------------------------------------------------------ C9
\* C9: for every endpoint with a request whose query comparison is done:
\* when the spec has no params there is no query warning; when it has, a
\* "has the query parameter" warning names n exactly when n is in the
\* flattened model query set (the query names of the requests and the
\* property names of the interfaces among the request and everything
\* reachable from it through inherits) and is no key of params, and a "does
\* not include the query parameter" warning names n exactly when n is a key
\* of params and not in the flattened model query set.
C9_QueryConditionalOnParams ==
  \A i \in 1..Len(endpoints) :
    QueryCompared(i) =>
      LET inModel == FlattenedQuery(requestOf(i))
      IN IF IsNull(specOf(i).params)
         THEN WarningsOf(i, QueryKinds) = <<>>
         ELSE LET inSpec == Range(Val(specOf(i).params))
              IN /\ WarnedNames(i, "queryNotInSpec") = inModel \ inSpec
                 /\ WarnedNames(i, "queryNotInModel") = inSpec \ inModel

\* A query comparison is done for a request that declares no query
\* parameter and takes q from an interface it inherits from, against a spec
\* whose params have no key: the warning names q.
C9_Witness ==
  \E i \in 1..Len(endpoints) :
    /\ QueryCompared(i)
    /\ DeclaredQuery(requestOf(i)) = {}
    /\ \E n \in Ancestors(requestOf(i)) :
         /\ Val(getDefinition(types, n)).kind = "interface"
         /\ "q" \in DeclaredQuery(n)
    /\ specOf(i).params = Some(<<>>)
    /\ WarnedNames(i, "queryNotInSpec") = {"q"}

\* A query comparison is done against a spec without params for a request
\* with a query parameter, and there is no query warning.
C9_WitnessNoParams ==
  \E i \in 1..Len(endpoints) :
    /\ QueryCompared(i)
    /\ FlattenedQuery(requestOf(i)) # {}
    /\ IsNull(specOf(i).params)
    /\ WarningsOf(i, QueryKinds) = <<>>

\* ------------------------------------------------------------ C4
\* C4: the flattened path and query collections behave as sets: for every
\* endpoint whose comparison is done, no path or query warning of one
\* wording names the same parameter twice.
C4_OneWarningPerName ==
  \A i \in 1..Len(endpoints) :
    \A kind \in PathKinds \cup QueryKinds :
      LET mine == WarningsOf(i, {kind})
      IN \A j, k \in 1..Len(mine) : mine[j].name = mine[k].name => j = k

\* ------------------------------------------------------------ C5
\* C5: in an acyclic model, if the requested entity or anything reachable
\* from it through inherits declares a body, getProperties returns yesBody
\* for it.
C5_BodyMonotone ==
  (pc # "for" /\ Acyclic /\ \E n \in Lineage(request) : DeclaresBody(n))
    => requestDefinition.body = yesBody

\* ------------------------------------------------------------ C10
\* The body state the claim gives entity `name`, for which getProperties
\* returned `flat`.
LastInheritBody(name, flat) ==
  LET d == Val(getDefinition(types, name))
  IN IF IsNull(d.inherits) \/ Val(d.inherits) = <<>>
     THEN flat.body = (IF DeclaresBody(name) THEN yesBody ELSE noBody)
     ELSE LET refs == Val(d.inherits)
          IN flat.body = resolve(types, refs[Len(refs)].type.name).body

\* C10: what getProperties returns as body for an entity with a non-empty
\* inherits list is the flattened body state of the last entry of the list,
\* whatever the entity and the entries before declare; for an entity
\* without inherits it is yesBody exactly when the entity is a request that
\* declares a body. This holds of the request definition the pass has in
\* hand and of every declared entity for which getProperties returns.
C10_BodyOfLastInherit ==
  /\ pc # "for" => LastInheritBody(request, requestDefinition)
  /\ \A n \in Declared :
       resolve(types, n).err = "none" => LastInheritBody(n, resolve(types, n))

\* The request declares a body and inherits, in this order, from a request
\* with a body and from an interface: the body state returned is noBody.
C10_Witness ==
  /\ pc = "spec"
  /\ DeclaresBody(request)
  /\ ~IsNull(Val(getDefinition(types, request)).inherits)
  /\ LET refs == Val(Val(getDefinition(types, request)).inherits)
     IN /\ Len(refs) = 2
        /\ DeclaresBody(refs[1].type.name)
        /\ Val(getDefinition(types, refs[2].type.name)).kind = "interface"
  /\ requestDefinition.body = noBody

\* ------------------------------------------------------------ C1
\* Endpoint i names a request that no request or interface bears.
Unresolved(i) == HasRequest(i) /\ IsNull(getDefinition(types, requestOf(i)))

\* Every warning of the loop rounds of the endpoints before i, in order.
RECURSIVE WarningsBefore(_)
WarningsBefore(i) ==
  IF i <= 1 THEN <<>>
  ELSE WarningsBefore(i - 1) \o
       (IF HasRequest(i - 1)
        THEN LET flat == resolve(types, requestOf(i - 1))
                 req == requestOf(i - 1)
             IN pathWarnings(i - 1, req, flat, specOf(i - 1))
                \o queryWarnings(i - 1, req, flat, specOf(i - 1))
                \o bodyWarnings(i - 1, req, flat, specOf(i - 1))
        ELSE <<>>)

\* C1 as stated: when the pass has stopped at an endpoint whose request
\* name matches no declared request or interface, it has stopped with the
\* definition-not-found error and no warning at all has been written.
C1_NoWarningAtAll ==
  \A i \in 1..Len(endpoints) :
    (Unresolved(i) /\ idx = i /\ status # "running")
      => status = "DefinitionNotFound" /\ warnings = <<>>

\* C1 as amended: the loop never gets past an endpoint whose request name
\* matches no declared request or interface and the model is not returned;
\* when the pass has stopped there it has stopped with the
\* definition-not-found error, and the warnings written are exactly those
\* of the endpoints before it, none of that endpoint or a later one.
C1_NoWarningFromFailingEndpointOn ==
  \A i \in 1..Len(endpoints) :
    Unresolved(i) =>
      /\ idx <= i
      /\ returned = None
      /\ \A w \in Range(warnings) : w.endpoint < i
      /\ (idx = i /\ status # "running")
           => status = "DefinitionNotFound" /\ warnings = WarningsBefore(i)

\* The pass has stopped with the definition-not-found error at the second
\* endpoint, after it wrote warnings for the first.
C1_Witness ==
  /\ idx = 2
  /\ Len(endpoints) = 2
  /\ Unresolved(idx)
  /\ status = "DefinitionNotFound"
  /\ warnings # <<>>
  /\ \A w \in Range(warnings) : w.endpoint = 1

\* ------------------------------------------------------------ C6
\* Endpoint i has a request that resolves and no entry in the spec map.
NoSpec(i) ==
  /\ HasRequest(i)
  /\ resolve(types, requestOf(i)).err = "none"
  /\ ~HasSpec(i)

\* C6: the loop never gets past an endpoint with a resolving request and no
\* entry in the spec map: no warning is ever written for it or for a later
\* endpoint, the model is never returned, and when the pass has stopped at
\* it, it has stopped with the assertion's error. An endpoint without a
\* request gets no warning and the pass never stops at it, with or without
\* an entry in the spec map.
C6_MissingSpecIsFatal ==
  /\ \A i \in 1..Len(endpoints) :
       NoSpec(i) =>
         /\ idx <= i
         /\ returned = None
         /\ status # "returned"
         /\ \A w \in Range(warnings) : w.endpoint < i
         /\ (idx = i /\ status # "running") => status = "AssertionError"
  /\ \A i \in 1..Len(endpoints) :
       ~HasRequest(i) =>
         /\ \A w \in Range(warnings) : w.endpoint # i
         /\ idx = i => status = "running"

\* The pass has stopped on the assertion at the first endpoint, and the
\* second endpoint, which has a spec entry, would have got warnings.
C6_Witness ==
  /\ status = "AssertionError"
  /\ idx = 1
  /\ NoSpec(1)
  /\ Len(endpoints) = 2
  /\ HasRequest(2) /\ HasSpec(2)
  /\ resolve(types, requestOf(2)).err = "none"
  /\ pathWarnings(2, requestOf(2), resolve(types, requestOf(2)), specOf(2)) # <<>>
  /\ warnings = <<>>

\* The pass has returned after passing over an endpoint with neither a
\* request nor a spec entry.
C6_WitnessSkipped ==
  /\ status = "returned"
  /\ \E i \in 1..Len(endpoints) : ~HasRequest(i) /\ ~HasSpec(i)

\* ------------------------------------------------------------ C7
\* C7: no step of the pass changes the model or the spec map, and a step
\* that returns returns the model it was given.
C7_ReadOnlyPassThrough ==
  [][/\ model' = model
     /\ jsonSpec' = jsonSpec
     /\ status' = "returned" => returned' = Some(model)]_vars

\* The pass has returned the model after writing warnings, and the model
\* has an endpoint without a request.
C7_Witness ==
  /\ status = "returned"
  /\ returned = Some(model)
  /\ warnings # <<>>
  /\ \E i \in 1..Len(endpoints) : ~HasRequest(i)

\* ------------------------------------------------------------ C8
\* The inputs on which no fatal error can occur.
WellFormed ==
  /\ Acyclic
  /\ AllResolve
  /\ \A i \in 1..Len(endpoints) : HasRequest(i) => HasSpec(i)

\* C8: on an acyclic model in which every referenced name resolves and
\* every endpoint with a request has a spec entry, the pass comes to
\* return, having taken every endpoint once, in the order of
\* model.endpoints.
C8_SoftMismatchesNeverStop ==
  WellFormed ~> (/\ status = "returned"
                 /\ visited = [i \in 1..Len(endpoints) |-> i])

\* The pass has returned after comparing two endpoints, with warnings for
\* the one and for the other.
C8_Witness ==
  /\ WellFormed
  /\ status = "returned"
  /\ visited = <<1, 2>>
  /\ \E w \in Range(warnings) : w.endpoint = 1
  /\ \E w \in Range(warnings) : w.endpoint = 2

====
